---- MODULE Spec2Model ----
(***************************************************************************)
(* Model of src/main.ts: the text-input suggestion widget (wrapAround,     *)
(* Suggest, TextInputSuggest, FolderSuggest).                              *)
(*                                                                         *)
(* Strings are sequences of character codes, so that toLowerCase and       *)
(* substring containment are computed rather than assumed.  JavaScript     *)
(* numbers that can be NaN or undefined are records [t, v]; arrays that    *)
(* can be undefined are records [def, els].  Array indexes are 0-based as  *)
(* in the source; the TLA+ sequence position is the index plus one.        *)
(***************************************************************************)
EXTENDS Integers, Sequences, FiniteSets, TLC

VARIABLES
    files,         \* app.vault.getAllLoadedFiles(): the host's listing
    inputValue,    \* TextInputSuggest.inputEl.value
    values,        \* Suggest.values
    suggestions,   \* Suggest.suggestions (the rendered .suggestion-item divs)
    selectedItem,  \* Suggest.selectedItem
    popper,        \* TextInputSuggest.popper: 0 = undefined, else instance id
    livePoppers,   \* positioning instances created and not yet destroyed
    keymapStack,   \* app.keymap: the scopes pushed and not yet popped
    attached,      \* TextInputSuggest.suggestEl is in the document
    returned,      \* what getSuggestions returned in the last handler
    trace,         \* calls made by the last handler, in order
    threw,         \* the last handler ended by an uncaught TypeError
    last,          \* the last event and the state it found
    notesFolder,   \* getFolderByPath(settings.notesFolder) is a folder
    children,      \* the TFile children of the notes folder, in order
    tagFolders,    \* the categories c whose folder <notesFolder>/<c> exists
    tasks,         \* the position of each file's transferNote call
    notices,       \* the Notices shown, in order
    organise       \* the position of organiseFiles and the folders it found

widgetVars == <<files, inputValue, values, suggestions, selectedItem, popper,
                livePoppers, keymapStack, attached, returned, trace, threw,
                last>>

organiseVars == <<notesFolder, children, tagFolders, tasks, notices, organise>>

vars == <<widgetVars, organiseVars>>

----------------------------------------------------------------------------
(* Bounds *)

MaxLen == 2

MaxPoppers == 4

BigExtra == 2

MaxFiles == 3

MaxNotes == 3

MaxSize == 4

MaxValue == 9

MaxShift == 3

----------------------------------------------------------------------------
(* JavaScript values *)

Num(v) == [t |-> "num", v |-> v]

NaN == [t |-> "NaN", v |-> 0]

Undefined == [t |-> "undefined", v |-> 0]

NoArray == [def |-> FALSE, els |-> <<>>]

Arr(s) == [def |-> TRUE, els |-> s]

\* a % b of JavaScript for integers, b > 0: the result takes the sign of a
JsRem(a, b) == IF a >= 0 THEN a % b ELSE -((-a) % b)

\* x + k for a field x that may hold undefined or NaN
JsAdd(x, k) == IF x.t = "num" THEN Num(x.v + k) ELSE NaN

\* arr[idx] is an element (not undefined)
InRange(idx, len) == idx.t = "num" /\ idx.v >= 0 /\ idx.v < len

----------------------------------------------------------------------------
(* Strings *)

\* String.prototype.toLowerCase on the ASCII letters
LowerChar(c) == IF c >= 65 /\ c <= 90 THEN c + 32 ELSE c

toLowerCase(s) == [i \in 1..Len(s) |-> LowerChar(s[i])]

\* String.prototype.contains (String.prototype.includes)
contains(s, sub) ==
    \E off \in 0..(Len(s) - Len(sub)) :
        SubSeq(s, off + 1, off + Len(sub)) = sub

----------------------------------------------------------------------------
(* wrapAround *)

\* without the last remainder: (value % size) + size
wrapAround_NoFinalRem(value, size) ==
    IF value.t # "num" \/ size = 0 THEN NaN
    ELSE Num(JsRem(value.v, size) + size)

\* without the second remainder: value % size alone
wrapAround_SignedRem(value, size) ==
    IF value.t # "num" \/ size = 0 THEN NaN
    ELSE Num(JsRem(value.v, size))

wrapAround(value, size) ==
    IF value.t # "num" \/ size = 0 THEN NaN
    ELSE Num(JsRem(JsRem(value.v, size) + size, size))

----------------------------------------------------------------------------
(* The state the methods work on, as one record *)

State ==
    [files |-> files, inputValue |-> inputValue, values |-> values,
     suggestions |-> suggestions, selectedItem |-> selectedItem,
     popper |-> popper, livePoppers |-> livePoppers,
     keymapStack |-> keymapStack, attached |-> attached,
     returned |-> returned, trace |-> trace, threw |-> threw]

\* a call the claims observe, appended to the handler's trace
Log(st, op, arg) ==
    [st EXCEPT !.trace = Append(@, [op |-> op, arg |-> arg])]

\* an uncaught TypeError: the rest of the handler does not run
Throw(st) == [st EXCEPT !.threw = TRUE]

\* the widget's Scope object (this.scope)
scope == "scope"

----------------------------------------------------------------------------
(* Host keymap: app.keymap.pushScope / popScope, counted as one occurrence *)
(* added per push and at most one removed per pop                          *)

pushScope(st, sc) ==
    Log([st EXCEPT !.keymapStack = Append(@, sc)], "pushScope", <<>>)

\* position of the topmost occurrence of sc on the stack, 0 when absent
TopOccurrence(stack, sc) ==
    IF \E i \in 1..Len(stack) : stack[i] = sc
    THEN CHOOSE i \in 1..Len(stack) :
             /\ stack[i] = sc
             /\ \A j \in (i + 1)..Len(stack) : stack[j] # sc
    ELSE 0

popScope(st, sc) ==
    LET i == TopOccurrence(st.keymapStack, sc)
        rest == IF i = 0 THEN st.keymapStack
                ELSE SubSeq(st.keymapStack, 1, i - 1)
                     \o SubSeq(st.keymapStack, i + 1, Len(st.keymapStack))
    IN Log([st EXCEPT !.keymapStack = rest], "popScope", <<>>)

----------------------------------------------------------------------------
(* Suggest *)

\* Array.prototype.indexOf on the rendered elements, by element identity
IndexOf(els, el) ==
    IF \E i \in 1..Len(els) : els[i].id = el.id
    THEN (CHOOSE i \in 1..Len(els) :
              /\ els[i].id = el.id
              /\ \A j \in 1..(i - 1) : els[j].id # el.id) - 1
    ELSE -1

\* without removeClass on the previous selection
setSelectedItem_KeepPrev(st, selectedIndex, scrollIntoView) ==
    IF st.threw THEN st
    ELSE IF ~st.suggestions.def THEN Throw(st)
    ELSE
    LET els == st.suggestions.els
        len == Len(els)
        normalizedIndex == wrapAround(selectedIndex, len)
        hasSel == InRange(normalizedIndex, len)
        els2 == IF hasSel
                THEN [els EXCEPT ![normalizedIndex.v + 1].selected = TRUE]
                ELSE els
        st1 == Log([st EXCEPT !.suggestions = Arr(els2),
                              !.selectedItem = normalizedIndex],
                   "wrapAround", <<len>>)
    IN IF ~scrollIntoView THEN st1
       ELSE IF hasSel
            THEN Log(st1, "scrollIntoView", els2[normalizedIndex.v + 1].text)
            ELSE Throw(st1)

setSelectedItem(st, selectedIndex, scrollIntoView) ==
    IF st.threw THEN st
    ELSE IF ~st.suggestions.def THEN Throw(st)
    ELSE
    LET els == st.suggestions.els
        len == Len(els)
        normalizedIndex == wrapAround(selectedIndex, len)
        hasPrev == InRange(st.selectedItem, len)
        hasSel == InRange(normalizedIndex, len)
        els1 == IF hasPrev
                THEN [els EXCEPT ![st.selectedItem.v + 1].selected = FALSE]
                ELSE els
        els2 == IF hasSel
                THEN [els1 EXCEPT ![normalizedIndex.v + 1].selected = TRUE]
                ELSE els1
        st1 == Log([st EXCEPT !.suggestions = Arr(els2),
                              !.selectedItem = normalizedIndex],
                   "wrapAround", <<len>>)
    IN IF ~scrollIntoView THEN st1
       ELSE IF hasSel
            THEN Log(st1, "scrollIntoView", els2[normalizedIndex.v + 1].text)
            ELSE Throw(st1)

\* FolderSuggest.renderSuggestion fills the new div with the folder's path
renderSuggestion(file, id) ==
    [id |-> id, text |-> file.path, selected |-> FALSE]

setSuggestions(st, vals) ==
    IF st.threw THEN st
    ELSE
    LET suggestionEls == [i \in 1..Len(vals) |-> renderSuggestion(vals[i], i)]
        st1 == [st EXCEPT !.values = Arr(vals),
                          !.suggestions = Arr(suggestionEls)]
    IN setSelectedItem(st1, Num(0), FALSE)

----------------------------------------------------------------------------
(* TextInputSuggest.open / close *)

open(st) ==
    IF st.threw THEN st
    ELSE
    LET st1 == pushScope(st, scope)
        instance == st1.popper + 1
    IN [st1 EXCEPT !.attached = TRUE,
                   !.popper = instance,
                   !.livePoppers = @ \cup {instance}]

close(st) ==
    IF st.threw THEN st
    ELSE
    LET st1 == popScope(st, scope)
        st2 == setSuggestions(st1, <<>>)
        st3 == IF st2.popper # 0
               THEN [st2 EXCEPT !.livePoppers = @ \ {st2.popper}]
               ELSE st2
    IN IF st2.threw THEN st2 ELSE [st3 EXCEPT !.attached = FALSE]

----------------------------------------------------------------------------
(* FolderSuggest.getSuggestions *)

SuggestionCap == 1000

Min(a, b) == IF a <= b THEN a ELSE b

IsMatch(folder, lowerCaseInputStr) ==
    folder.isFolder /\ contains(toLowerCase(folder.path), lowerCaseInputStr)

\* without toLowerCase on the input text
getSuggestions_CaseSensitive(abstractFiles, inputStr) ==
    LET Test(folder) == IsMatch(folder, inputStr)
        folders == SelectSeq(abstractFiles, Test)
    IN Arr(SubSeq(folders, 1, Min(SuggestionCap, Len(folders))))

getSuggestions(abstractFiles, inputStr) ==
    LET lowerCaseInputStr == toLowerCase(inputStr)
        Test(folder) == IsMatch(folder, lowerCaseInputStr)
        folders == SelectSeq(abstractFiles, Test)
    IN Arr(SubSeq(folders, 1, Min(SuggestionCap, Len(folders))))

----------------------------------------------------------------------------
(* TextInputSuggest.onInputChanged *)

\* without recomputing while the panel is already open
onInputChanged_SkipWhenOpen(st) ==
    IF st.threw THEN st
    ELSE IF st.attached THEN st
    ELSE
    LET inputStr == st.inputValue
        result == getSuggestions(st.files, inputStr)
        st1 == [st EXCEPT !.returned = result]
    IN IF ~result.def THEN close(st1)
       ELSE IF Len(result.els) > 0
            THEN open(setSuggestions(st1, result.els))
            ELSE close(st1)

\* without close() on an empty result
onInputChanged_KeepStale(st) ==
    IF st.threw THEN st
    ELSE
    LET inputStr == st.inputValue
        result == getSuggestions(st.files, inputStr)
        st1 == [st EXCEPT !.returned = result]
    IN IF ~result.def THEN close(st1)
       ELSE IF Len(result.els) > 0
            THEN open(setSuggestions(st1, result.els))
            ELSE st1

onInputChanged(st) ==
    IF st.threw THEN st
    ELSE
    LET inputStr == st.inputValue
        result == getSuggestions(st.files, inputStr)
        st1 == [st EXCEPT !.returned = result]
    IN IF ~result.def THEN close(st1)
       ELSE IF Len(result.els) > 0
            THEN open(setSuggestions(st1, result.els))
            ELSE close(st1)

----------------------------------------------------------------------------
(* FolderSuggest.selectSuggestion, Suggest.useSelectedItem, mouse handlers *)

selectSuggestion(st, file) ==
    LET st1 == Log([st EXCEPT !.inputValue = file.path],
                   "selectSuggestion", file.path)
        st2 == onInputChanged(Log(st1, "trigger", <<>>))
    IN close(st2)

\* without the test of currentValue
useSelectedItem_NoGuard(st) ==
    IF st.threw THEN st
    ELSE IF ~st.values.def THEN Throw(st)
    ELSE IF InRange(st.selectedItem, Len(st.values.els))
         THEN selectSuggestion(st, st.values.els[st.selectedItem.v + 1])
         ELSE Throw(st)

useSelectedItem(st) ==
    IF st.threw THEN st
    ELSE IF ~st.values.def THEN Throw(st)
    ELSE IF InRange(st.selectedItem, Len(st.values.els))
         THEN selectSuggestion(st, st.values.els[st.selectedItem.v + 1])
         ELSE st

\* without selecting the clicked element first
onSuggestionClick_NoSelect(st, el) == useSelectedItem(st)

onSuggestionClick(st, el) ==
    LET item == IndexOf(st.suggestions.els, el)
    IN useSelectedItem(setSelectedItem(st, Num(item), FALSE))

\* bound to the click handler
onSuggestionMouseover_Click(st, el) == onSuggestionClick(st, el)

onSuggestionMouseover(st, el) ==
    LET item == IndexOf(st.suggestions.els, el)
    IN setSelectedItem(st, Num(item), FALSE)

----------------------------------------------------------------------------
(* The key bindings registered on the widget's scope by Suggest *)

onArrowUp(st, isComposing) ==
    IF ~isComposing
    THEN setSelectedItem(st, JsAdd(st.selectedItem, -1), TRUE)
    ELSE st

onArrowDown(st, isComposing) ==
    IF ~isComposing
    THEN setSelectedItem(st, JsAdd(st.selectedItem, 1), TRUE)
    ELSE st

onEnter(st, isComposing) ==
    IF ~isComposing THEN useSelectedItem(st) ELSE st

----------------------------------------------------------------------------
(* The organise command is not running: an empty notes folder, nothing     *)
(* started                                                                 *)

NoOrganiseRun ==
    /\ notesFolder = TRUE
    /\ children = <<>>
    /\ tagFolders = {}
    /\ tasks = <<>>
    /\ notices = <<>>
    /\ organise = [pc |-> "idle", found |-> {}]

----------------------------------------------------------------------------
(* The vault listings and the texts a user can type *)

Folder(path) == [path |-> path, isFolder |-> TRUE]

Note(path) == [path |-> path, isFolder |-> FALSE]

\* "/", "Ab", note "Ab/b", "aB/a", "b"
VaultA ==
    << Folder(<<47>>), Folder(<<65, 98>>), Note(<<65, 98, 47, 98>>),
       Folder(<<97, 66, 47, 97>>), Folder(<<98>>) >>

\* "/", note "a"
VaultB == << Folder(<<47>>), Note(<<97>>) >>

Vaults == {VaultA, VaultB}

\* "A", "b": an upper-case letter whose lower case occurs in the paths, and
\* a lower-case letter whose upper case does
Alphabet == {65, 98}

Texts == UNION {[1..n -> Alphabet] : n \in 0..MaxLen}

----------------------------------------------------------------------------
(* Events *)

\* the widget's own state, without the observation variables
Core(st) ==
    [inputValue |-> st.inputValue, values |-> st.values,
     suggestions |-> st.suggestions, selectedItem |-> st.selectedItem,
     popper |-> st.popper, livePoppers |-> st.livePoppers,
     keymapStack |-> st.keymapStack, attached |-> st.attached]

\* the state a handler starts from: nothing observed yet
Begin == [State EXCEPT !.returned = NoArray, !.trace = <<>>, !.threw = FALSE]

\* the handler ran from the current state and left st
Handled(op, composing, k, st) ==
    /\ st.popper <= MaxPoppers
    /\ files' = st.files
    /\ inputValue' = st.inputValue
    /\ values' = st.values
    /\ suggestions' = st.suggestions
    /\ selectedItem' = st.selectedItem
    /\ popper' = st.popper
    /\ livePoppers' = st.livePoppers
    /\ keymapStack' = st.keymapStack
    /\ attached' = st.attached
    /\ returned' = st.returned
    /\ trace' = st.trace
    /\ threw' = st.threw
    /\ last' = [op |-> op, composing |-> composing, k |-> k,
                pre |-> Core(State)]
    /\ UNCHANGED organiseVars

\* the widget's scope is the active scope of the host keymap
ScopeActive ==
    Len(keymapStack) > 0 /\ keymapStack[Len(keymapStack)] = scope

\* the user edits the text: the browser sets the value and fires "input"
Input ==
    \E t \in Texts :
        Handled("input", FALSE, -1,
                onInputChanged([Begin EXCEPT !.inputValue = t]))

Focus == Handled("focus", FALSE, -1, onInputChanged(Begin))

Blur == Handled("blur", FALSE, -1, close(Begin))

Escape == ScopeActive /\ Handled("Escape", FALSE, -1, close(Begin))

ArrowUp ==
    /\ ScopeActive
    /\ \E isComposing \in BOOLEAN :
        Handled("ArrowUp", isComposing, -1, onArrowUp(Begin, isComposing))

ArrowDown ==
    /\ ScopeActive
    /\ \E isComposing \in BOOLEAN :
        Handled("ArrowDown", isComposing, -1, onArrowDown(Begin, isComposing))

Enter ==
    /\ ScopeActive
    /\ \E isComposing \in BOOLEAN :
        Handled("Enter", isComposing, -1, onEnter(Begin, isComposing))

\* the rendered elements the mouse can reach: those of an attached panel
Reachable ==
    IF attached /\ suggestions.def THEN 1..Len(suggestions.els) ELSE {}

Click ==
    \E k \in Reachable :
        Handled("click", FALSE, k - 1,
                onSuggestionClick(Begin, suggestions.els[k]))

Mouseover ==
    \E k \in Reachable :
        Handled("mousemove", FALSE, k - 1,
                onSuggestionMouseover(Begin, suggestions.els[k]))

----------------------------------------------------------------------------
(* The widget bound to an input of the settings tab *)

Init ==
    /\ files \in Vaults
    /\ inputValue \in Texts
    /\ values = NoArray
    /\ suggestions = NoArray
    /\ selectedItem = Undefined
    /\ popper = 0
    /\ livePoppers = {}
    /\ keymapStack = <<>>
    /\ attached = FALSE
    /\ returned = NoArray
    /\ trace = <<>>
    /\ threw = FALSE
    /\ last = [op |-> "new", composing |-> FALSE, k |-> -1,
               pre |-> Core([inputValue |-> inputValue, values |-> NoArray,
                             suggestions |-> NoArray,
                             selectedItem |-> Undefined, popper |-> 0,
                             livePoppers |-> {}, keymapStack |-> <<>>,
                             attached |-> FALSE])]
    /\ NoOrganiseRun

Next ==
    \/ Input
    \/ Focus
    \/ Blur
    \/ Escape
    \/ ArrowUp
    \/ ArrowDown
    \/ Enter
    \/ Click
    \/ Mouseover

Spec == Init /\ [][Next]_vars

----------------------------------------------------------------------------
(* Observations the claims are stated in *)

\* occurrences of the widget's scope on the host stack
ScopeCount ==
    Cardinality({i \in 1..Len(keymapStack) : keymapStack[i] = scope})

\* the rendered suggestion elements
Rendered == suggestions.els

\* the paths selectSuggestion was invoked with by the last handler, in order
RECURSIVE SelectCalls(_)
SelectCalls(tr) ==
    IF tr = <<>> THEN <<>>
    ELSE IF Head(tr).op = "selectSuggestion"
         THEN <<Head(tr).arg>> \o SelectCalls(Tail(tr))
         ELSE SelectCalls(Tail(tr))

Called(op) == \E i \in 1..Len(trace) : trace[i].op = op

\* the list the last handler found was open with at least one candidate
WasOpenList ==
    /\ last.pre.attached
    /\ last.pre.values.def
    /\ Len(last.pre.values.els) > 0

----------------------------------------------------------------------------
(* C1: the widget's scope is on the host keymap stack at most once, and    *)
(* not at all while the panel is closed (its element detached).            *)
C1_ScopePushPopPaired ==
    /\ ScopeCount <= 1
    /\ ~attached => ScopeCount = 0

(* C2: Enter (not composing) on an open list with the selection at index k *)
(* invokes selectSuggestion with candidate k, writes its path into the     *)
(* input, dispatches the synthetic input event and leaves the panel        *)
(* closed: nothing rendered, panel detached, scope off the host stack.     *)
C2_EnterSelectsAndCloses ==
    (last.op = "Enter" /\ ~last.composing /\ WasOpenList
     /\ InRange(last.pre.selectedItem, Len(last.pre.values.els)))
    => LET candidate == last.pre.values.els[last.pre.selectedItem.v + 1]
       IN /\ SelectCalls(trace) = <<candidate.path>>
          /\ inputValue = candidate.path
          /\ Called("trigger")
          /\ Rendered = <<>>
          /\ ~attached
          /\ ScopeCount = 0

(* C3: after an input or focus event, from either panel state: an absent  *)
(* or empty result leaves the panel closed with nothing rendered; any      *)
(* other result leaves it open, showing exactly the returned candidates in *)
(* order with the selection at index 0.                                    *)
C3_InputOutcome ==
    last.op \in {"input", "focus"}
    => IF ~returned.def \/ Len(returned.els) = 0
       THEN ~attached /\ Rendered = <<>>
       ELSE /\ attached
            /\ values = returned
            /\ Len(Rendered) = Len(returned.els)
            /\ \A i \in 1..Len(Rendered) :
                   Rendered[i].text = returned.els[i].path
            /\ selectedItem = Num(0)

C3_Witness ==
    /\ last.op = "input"
    /\ last.pre.attached
    /\ Len(last.pre.values.els) = 2
    /\ Len(returned.els) = 3
    /\ attached
    /\ Len(Rendered) = 3

(* C4: blur, and Escape while the scope is active, leave the panel closed  *)
(* whatever the state before: nothing rendered, panel detached, the        *)
(* widget's positioning instance destroyed; a further close() does not     *)
(* throw and changes nothing.                                              *)
C4_BlurCloses ==
    last.op \in {"blur", "Escape"}
    => /\ ~threw
       /\ suggestions.def /\ Rendered = <<>>
       /\ ~attached
       /\ popper # 0 => popper \notin livePoppers
       /\ LET again == close(Begin)
          IN ~again.threw /\ Core(again) = Core(State)

(* C5: close() twice in a row leaves the same observable state (host scope *)
(* stack, rendered elements, selection index, live positioning instances,  *)
(* panel attachment) as close() once.                                      *)
Observable(st) ==
    [keymapStack |-> st.keymapStack, suggestions |-> st.suggestions,
     selectedItem |-> st.selectedItem, livePoppers |-> st.livePoppers,
     attached |-> st.attached, threw |-> st.threw]

C5_CloseIdempotent ==
    LET once == close(Begin)
        twice == close(once)
    IN Observable(twice) = Observable(once)

(* C6: no event that reaches a handler of the widget ends in an uncaught   *)
(* error; setSelectedItem with scrollIntoView = true never runs on an      *)
(* empty rendered list.                                                    *)
C6_NeverThrows == ~threw

(* C7: whenever the rendered list is non-empty, the selection index is an  *)
(* integer in [0, len) and exactly the element at that index is marked     *)
(* selected; right after setSuggestions with a non-empty set it is         *)
(* element 0.                                                              *)
OnlySelected(els, idx) ==
    /\ InRange(idx, Len(els))
    /\ \A i \in 1..Len(els) : els[i].selected <=> (i = idx.v + 1)

C7_SelectionValid ==
    /\ (suggestions.def /\ Len(Rendered) > 0)
       => OnlySelected(Rendered, selectedItem)
    /\ \A t \in Texts :
         LET vals == getSuggestions(files, t).els
             st == setSuggestions(Begin, vals)
         IN Len(vals) > 0
            => /\ st.selectedItem = Num(0)
               /\ Len(st.suggestions.els) = Len(vals)
               /\ OnlySelected(st.suggestions.els, Num(0))

C7_Witness ==
    /\ last.op = "ArrowUp"
    /\ ~last.composing
    /\ Len(Rendered) = 3
    /\ last.pre.selectedItem = Num(0)
    /\ selectedItem = Num(2)
    /\ Rendered[3].selected

(* C8: navigation is cyclic over an open list of length len: ArrowDown at  *)
(* index i selects (i+1) mod len, ArrowUp selects (i-1) mod len, and len   *)
(* presses of either key return to the index they started from.            *)
RECURSIVE PressDown(_, _)
PressDown(st, n) ==
    IF n = 0 THEN st ELSE PressDown(onArrowDown(st, FALSE), n - 1)

RECURSIVE PressUp(_, _)
PressUp(st, n) ==
    IF n = 0 THEN st ELSE PressUp(onArrowUp(st, FALSE), n - 1)

C8_CyclicNavigation ==
    /\ (last.op \in {"ArrowDown", "ArrowUp"} /\ ~last.composing /\ WasOpenList)
       => LET len == Len(last.pre.suggestions.els)
              step == IF last.op = "ArrowDown" THEN 1 ELSE -1
          IN /\ last.pre.selectedItem.t = "num"
             /\ selectedItem = Num((last.pre.selectedItem.v + step) % len)
    /\ (attached /\ suggestions.def /\ Len(Rendered) > 0)
       => /\ PressDown(Begin, Len(Rendered)).selectedItem = selectedItem
          /\ PressUp(Begin, Len(Rendered)).selectedItem = selectedItem
          /\ selectedItem.t = "num"

C8_Witness ==
    /\ last.op = "ArrowDown"
    /\ ~last.composing
    /\ WasOpenList
    /\ Len(Rendered) = 3
    /\ last.pre.selectedItem = Num(2)
    /\ selectedItem = Num(0)

(* C10: a click on rendered element k of an open list, whatever the        *)
(* selection was, selects k without scrolling and then invokes             *)
(* selectSuggestion exactly once, with the candidate at position k.        *)
C10_ClickSelects ==
    /\ last.op = "click"
       => /\ ~threw
          /\ SelectCalls(trace) = <<last.pre.values.els[last.k + 1].path>>
          /\ ~Called("scrollIntoView")
    /\ \A k \in Reachable :
         LET st == setSelectedItem(Begin, Num(IndexOf(Rendered, Rendered[k])),
                                   FALSE)
         IN /\ st.selectedItem = Num(k - 1)
            /\ \A i \in 1..Len(st.trace) : st.trace[i].op = "wrapAround"
            /\ ~st.threw

C10_Witness ==
    /\ last.op = "click"
    /\ last.k = 2
    /\ last.pre.selectedItem = Num(0)
    /\ Len(last.pre.values.els) = 3
    /\ SelectCalls(trace) = <<last.pre.values.els[3].path>>

----------------------------------------------------------------------------
(* FolderSuggest.getSuggestions on its own: every listing of up to         *)
(* MaxFiles files, and listings with about SuggestionCap matching folders  *)

FilePool == {VaultA[i] : i \in 1..Len(VaultA)}

SmallVaults ==
    {v \in UNION {[1..n -> FilePool] : n \in 0..MaxFiles} :
        \A i, j \in 1..Len(v) : i # j => v[i] # v[j]}

\* note "a", "b", then SuggestionCap + extra folders named "a" or "A"
\* followed by a character of their own, then "ab"
BigVault(extra) ==
    << Note(<<97>>), Folder(<<98>>) >>
    \o [i \in 1..(SuggestionCap + extra) |->
           Folder(<<IF i % 2 = 0 THEN 65 ELSE 97, 19968 + i>>)]
    \o << Folder(<<97, 98>>) >>

BigVaults == {BigVault(extra) : extra \in (-2)..BigExtra}

BigTexts == {<<>>, <<65>>, <<97>>, <<98>>, <<19969>>, <<98, 98>>}

InitFolders ==
    /\ \/ files \in SmallVaults /\ inputValue \in Texts
       \/ files \in BigVaults /\ inputValue \in BigTexts
    /\ values = NoArray
    /\ suggestions = NoArray
    /\ selectedItem = Undefined
    /\ popper = 0
    /\ livePoppers = {}
    /\ keymapStack = <<>>
    /\ attached = FALSE
    /\ returned = NoArray
    /\ trace = <<>>
    /\ threw = FALSE
    /\ last = [op |-> "new", composing |-> FALSE, k |-> -1,
               pre |-> Core([inputValue |-> inputValue, values |-> NoArray,
                             suggestions |-> NoArray,
                             selectedItem |-> Undefined, popper |-> 0,
                             livePoppers |-> {}, keymapStack |-> <<>>,
                             attached |-> FALSE])]
    /\ NoOrganiseRun

GetSuggestionsCall ==
    /\ returned' = getSuggestions(files, inputValue)
    /\ last' = [last EXCEPT !.op = "getSuggestions"]
    /\ UNCHANGED <<files, inputValue, values, suggestions, selectedItem,
                   popper, livePoppers, keymapStack, attached, trace, threw>>
    /\ UNCHANGED organiseVars

NextFolders == GetSuggestionsCall

SpecFolders == InitFolders /\ [][NextFolders]_vars

(* C9: getSuggestions returns exactly the folders, never other files,      *)
(* whose path contains the input text case-insensitively, in the host's    *)
(* order, cut to the first SuggestionCap matches; the result is never      *)
(* absent, and the empty text yields every folder up to the cap.           *)
ContainsIgnoringCase(path, text) ==
    \E off \in 0..(Len(path) - Len(text)) :
        \A k \in 1..Len(text) : LowerChar(path[off + k]) = LowerChar(text[k])

C9_FolderMatches ==
    last.op = "getSuggestions"
    => LET r == returned.els
           M == {i \in 1..Len(files) :
                    /\ files[i].isFolder
                    /\ ContainsIgnoringCase(files[i].path, inputValue)}
           AllFolders == {i \in 1..Len(files) : files[i].isFolder}
           Pos(j) == CHOOSE i \in 1..Len(files) : files[i] = r[j]
       IN /\ returned.def
          /\ Len(r) = Min(Cardinality(M), 1000)
          /\ \A j \in 1..Len(r) :
                /\ \E i \in M : files[i] = r[j]
                /\ j < Len(r) => Pos(j) < Pos(j + 1)
          /\ Len(r) > 0
             => Cardinality({m \in M : m <= Pos(Len(r))}) = Len(r)
          /\ inputValue = <<>>
             => Len(r) = Min(Cardinality(AllFolders), 1000)

C9_Witness ==
    /\ last.op = "getSuggestions"
    /\ Len(returned.els) = 1000
    /\ Cardinality({i \in 1..Len(files) : files[i].isFolder}) > 1000
    /\ inputValue = <<65>>

----------------------------------------------------------------------------
(* The organise command: organiseFiles and transferNote.  Categories and   *)
(* file names are strings of character codes ("a" is <<97>>); a file's     *)
(* frontmatter is present or not, and its tags are an array or undefined.  *)

\* the widget as constructed and never used
WidgetNew ==
    /\ values = NoArray
    /\ suggestions = NoArray
    /\ selectedItem = Undefined
    /\ popper = 0
    /\ livePoppers = {}
    /\ keymapStack = <<>>
    /\ attached = FALSE
    /\ returned = NoArray
    /\ trace = <<>>
    /\ threw = FALSE
    /\ last = [op |-> "new", composing |-> FALSE, k |-> -1,
               pre |-> Core([inputValue |-> inputValue, values |-> NoArray,
                             suggestions |-> NoArray,
                             selectedItem |-> Undefined, popper |-> 0,
                             livePoppers |-> {}, keymapStack |-> <<>>,
                             attached |-> FALSE])]

Organiser ==
    [notesFolder |-> notesFolder, children |-> children,
     tagFolders |-> tagFolders, tasks |-> tasks, notices |-> notices,
     organise |-> organise]

\* new Notice(...): the message, and the file name or category it names
Notice(text, about) == [text |-> text, about |-> about]

Notify(org, text, about) ==
    [org EXCEPT !.notices = Append(@, Notice(text, about))]

\* a TFile child with its cached metadata, and a TFolder child
TFile(name, frontmatter, tags) ==
    [name |-> name, isFile |-> TRUE, frontmatter |-> frontmatter,
     tags |-> tags, parent |-> <<>>]

TFolder(name) ==
    [name |-> name, isFile |-> FALSE, frontmatter |-> FALSE,
     tags |-> NoArray, parent |-> <<>>]

\* tags[0]
Category(file) == file.tags.els[1]

\* categories app.vault.createFolder rejects whether or not they exist
\* ("?" cannot be part of a folder name)
InvalidTags == {<<63>>}

\* transferNote up to its first await, or to its end when it has none
transferNote(org, i) ==
    LET file == org.children[i]
    IN IF ~file.frontmatter
       THEN [Notify(org, "Frontmatter not found", file.name)
                EXCEPT !.tasks[i] = "returned"]
       ELSE IF ~file.tags.def \/ Len(file.tags.els) = 0
       THEN [Notify(org, "Tag not found", file.name)
                EXCEPT !.tasks[i] = "returned"]
       ELSE IF Category(file) \in org.tagFolders
       THEN [org EXCEPT !.tasks[i] = "rename"]
       ELSE [org EXCEPT !.tasks[i] = "createFolder"]

\* folder.children.forEach from child i on
RECURSIVE forEachChild(_, _)
forEachChild(org, i) ==
    IF i > Len(org.children) THEN org
    ELSE IF org.children[i].isFile
         THEN forEachChild(transferNote(org, i), i + 1)
         ELSE forEachChild([org EXCEPT !.tasks[i] = "skipped"], i + 1)

organiseFiles(org) ==
    LET started == [org EXCEPT !.organise =
                        [pc |-> "done", found |-> org.tagFolders]]
    IN IF ~org.notesFolder
       THEN Notify(started, "Notes folder not found.", <<>>)
       ELSE Notify(forEachChild(started, 1), "Notes organised!", <<>>)

\* the organiser variables become org, the widget is not touched
Organised(org) ==
    /\ notesFolder' = org.notesFolder
    /\ children' = org.children
    /\ tagFolders' = org.tagFolders
    /\ tasks' = org.tasks
    /\ notices' = org.notices
    /\ organise' = org.organise
    /\ UNCHANGED widgetVars

\* the command or the ribbon button runs organiseFiles, once
RunOrganise ==
    /\ organise.pc = "idle"
    /\ Organised(organiseFiles(Organiser))

\* await createFolder resolves: the folder exists now, rename is called
CreateFolderResolves ==
    \E i \in 1..Len(children) :
        /\ tasks[i] = "createFolder"
        /\ Category(children[i]) \notin tagFolders
        /\ Category(children[i]) \notin InvalidTags
        /\ Organised([Organiser EXCEPT
               !.tagFolders = @ \cup {Category(children[i])},
               !.children = Append(@, TFolder(Category(children[i]))),
               !.tasks = Append([@ EXCEPT ![i] = "rename"], "skipped")])

\* await createFolder rejects: the catch block notifies and returns
CreateFolderRejects ==
    \E i \in 1..Len(children) :
        /\ tasks[i] = "createFolder"
        /\ \/ Category(children[i]) \in tagFolders
           \/ Category(children[i]) \in InvalidTags
        /\ Organised([Notify(Organiser, "Folder creation failed",
                             Category(children[i]))
                         EXCEPT !.tasks[i] = "returned"])

\* the rename that was called and not awaited completes
RenameResolves ==
    \E i \in 1..Len(children) :
        /\ tasks[i] = "rename"
        /\ Organised([Organiser EXCEPT
               !.children[i].parent = Category(children[i]),
               !.tasks[i] = "moved"])

\* the categories "a" and "b"
CategoryA == <<97>>

CategoryB == <<98>>

\* what the cache holds for a file: no frontmatter, no tags, or tags
Metadata ==
    { <<FALSE, NoArray>>, <<TRUE, NoArray>>, <<TRUE, Arr(<<>>)>>,
      <<TRUE, Arr(<<CategoryA>>)>>, <<TRUE, Arr(<<CategoryB, CategoryA>>)>>,
      <<TRUE, Arr(<<<<63>>>>)>> }

\* "n1", "n2", ...
NoteName(i) == <<110, 48 + i>>

\* the category folders that exist, then MaxNotes files
ChildrenOf(existing, metadata) ==
    (IF CategoryA \in existing THEN <<TFolder(CategoryA)>> ELSE <<>>)
    \o (IF CategoryB \in existing THEN <<TFolder(CategoryB)>> ELSE <<>>)
    \o [i \in 1..MaxNotes |-> TFile(NoteName(i), metadata[i][1], metadata[i][2])]

InitOrganise ==
    /\ files = VaultB
    /\ inputValue = <<>>
    /\ WidgetNew
    /\ notesFolder \in BOOLEAN
    /\ tagFolders \in SUBSET {CategoryA, CategoryB}
    /\ \E metadata \in [1..MaxNotes -> Metadata] :
           children = IF notesFolder THEN ChildrenOf(tagFolders, metadata)
                      ELSE <<>>
    /\ notesFolder = FALSE => tagFolders = {}
    /\ tasks = [i \in 1..Len(children) |-> "none"]
    /\ notices = <<>>
    /\ organise = [pc |-> "idle", found |-> {}]

NextOrganise ==
    \/ RunOrganise
    \/ CreateFolderResolves
    \/ CreateFolderRejects
    \/ RenameResolves

SpecOrganise == InitOrganise /\ [][NextOrganise]_vars

----------------------------------------------------------------------------
(* Observations on an organise run *)

\* nothing is pending: the run is over and every call has settled
Settled ==
    /\ organise.pc = "done"
    /\ \A i \in 1..Len(tasks) : tasks[i] \notin {"none", "createFolder", "rename"}

Notified(text, about) ==
    \E k \in 1..Len(notices) : notices[k] = Notice(text, about)

\* the files the run found directly in the notes folder
RunFiles == {i \in 1..Len(children) : children[i].isFile}

HasFirstTag(file) ==
    file.frontmatter /\ file.tags.def /\ Len(file.tags.els) > 0

\* file i is now <notesFolder>/<category>/<name>
MovedTo(i, category) ==
    tasks[i] = "moved" /\ children[i].parent = category

(* C11: in one organise run a file without frontmatter, without tags or   *)
(* whose folder cannot be created gets a notification and stays where it  *)
(* is, and every other file of the notes folder is moved to               *)
(* <notesFolder>/<firstTag>/<name>.                                       *)
C11_FailureIsolated ==
    (Settled /\ notesFolder)
    => \A i \in RunFiles :
         LET file == children[i]
         IN IF ~file.frontmatter
            THEN /\ Notified("Frontmatter not found", file.name)
                 /\ file.parent = <<>>
            ELSE IF ~HasFirstTag(file)
            THEN /\ Notified("Tag not found", file.name)
                 /\ file.parent = <<>>
            ELSE IF Category(file) \notin organise.found
                    /\ Category(file) \in InvalidTags
            THEN /\ Notified("Folder creation failed", Category(file))
                 /\ file.parent = <<>>
            ELSE MovedTo(i, Category(file))

\* file i shares its first tag with another file of the run, and the
\* folder of that category was missing when the run started but can be
\* created
RacesForFolder(i) ==
    /\ HasFirstTag(children[i])
    /\ Category(children[i]) \notin organise.found
    /\ Category(children[i]) \notin InvalidTags
    /\ \E j \in RunFiles \ {i} :
          /\ HasFirstTag(children[j])
          /\ Category(children[j]) = Category(children[i])

(* C19: when the transfers of one run have settled, every file that       *)
(* shared its first tag with another file while the category folder was   *)
(* missing has been moved into that folder, and no folder-creation        *)
(* failure was reported for the category.                                 *)
C19_NoInterference ==
    Settled
    => \A i \in RunFiles :
         RacesForFolder(i)
         => /\ MovedTo(i, Category(children[i]))
            /\ ~Notified("Folder creation failed", Category(children[i]))

----------------------------------------------------------------------------
(* wrapAround on its own: setSelectedItem called with any index on an     *)
(* open list of 1..MaxSize suggestions                                    *)

\* the widget as constructed on an input holding text, in a vault fs
Constructed(fs, text) ==
    [files |-> fs, inputValue |-> text, values |-> NoArray,
     suggestions |-> NoArray, selectedItem |-> Undefined, popper |-> 0,
     livePoppers |-> {}, keymapStack |-> <<>>, attached |-> FALSE,
     returned |-> NoArray, trace |-> <<>>, threw |-> FALSE]

\* the folders "b1", "b2", ..., n of them
FoldersB(n) == [i \in 1..n |-> Folder(<<98, 48 + i>>)]

\* the input was focused while empty: every folder is suggested
InitWrap ==
    \E n \in 1..MaxSize :
        LET new == Constructed(FoldersB(n), <<>>)
            st == onInputChanged(new)
        IN /\ files = st.files
           /\ inputValue = st.inputValue
           /\ values = st.values
           /\ suggestions = st.suggestions
           /\ selectedItem = st.selectedItem
           /\ popper = st.popper
           /\ livePoppers = st.livePoppers
           /\ keymapStack = st.keymapStack
           /\ attached = st.attached
           /\ returned = st.returned
           /\ trace = st.trace
           /\ threw = st.threw
           /\ last = [op |-> "focus", composing |-> FALSE, k |-> -1,
                      pre |-> Core(new)]
           /\ NoOrganiseRun

SetSelectedItemCall ==
    \E v \in (-MaxValue)..MaxValue :
        Handled("setSelectedItem", FALSE, v,
                setSelectedItem(Begin, Num(v), FALSE))

NextWrap == SetSelectedItemCall

SpecWrap == InitWrap /\ [][NextWrap]_vars

(* C12: for every integer v and every n > 0, wrapAround(v, n) is the      *)
(* mathematical v mod n, a value in [0, n), and wrapAround(v + k*n, n) is *)
(* the same value for every integer k.                                    *)
C12_WrapAround ==
    last.op = "setSelectedItem"
    => LET v == last.k
           n == Len(Rendered)
           r == wrapAround(Num(v), n)
       IN /\ n > 0
          /\ selectedItem = r
          /\ r.t = "num"
          /\ r.v >= 0 /\ r.v < n
          /\ \E q \in (-MaxValue)..MaxValue : v = q * n + r.v
          /\ \A k \in (-MaxShift)..MaxShift :
                wrapAround(Num(v + k * n), n) = r

C12_Witness ==
    /\ last.op = "setSelectedItem"
    /\ Len(Rendered) = 3
    /\ last.k = -7
    /\ selectedItem = Num(2)

----------------------------------------------------------------------------
(* C13: wrapAround is never called with size 0: on every path through the *)
(* widget it runs only while the rendered suggestion list is non-empty.   *)
C13_WrapNeverOnEmpty ==
    \A i \in 1..Len(trace) :
        trace[i].op = "wrapAround" => trace[i].arg # <<0>>

(* C14: at most one positioning instance created by the widget is live,  *)
(* and none is live once the panel has been closed.                       *)
C14_NoPopperLeak ==
    /\ Cardinality(livePoppers) <= 1
    /\ ~attached => livePoppers = {}

(* C15: after every handler the panel is attached if and only if          *)
(* suggestions are rendered, and if and only if the widget's scope is on  *)
(* the host stack.                                                        *)
C15_PanelConsistent ==
    /\ attached <=> Len(Rendered) > 0
    /\ attached <=> ScopeCount > 0

(* C16: with the vault fixed, whenever the panel is open after a handler  *)
(* the displayed candidates are the source's result for the input's       *)
(* current text.                                                          *)
C16_ListIsCurrent ==
    attached
    => LET current == getSuggestions(files, inputValue)
       IN /\ values = current
          /\ Len(Rendered) = Len(current.els)
          /\ \A i \in 1..Len(Rendered) :
                Rendered[i].text = current.els[i].path

C16_Witness ==
    /\ last.op = "input"
    /\ last.pre.attached
    /\ last.pre.inputValue # inputValue
    /\ Len(last.pre.values.els) = 4
    /\ attached
    /\ Len(values.els) = 2

(* C17: useSelectedItem invokes selectSuggestion exactly once, with the   *)
(* candidate at the selection index, when the list is non-empty; on an    *)
(* empty list it invokes nothing, throws nothing and changes nothing.     *)
C17_UseSelectedItem ==
    values.def
    => LET st == useSelectedItem(Begin)
       IN IF Len(values.els) > 0
          THEN /\ InRange(selectedItem, Len(values.els))
               /\ SelectCalls(st.trace) =
                      <<values.els[selectedItem.v + 1].path>>
               /\ ~st.threw
          ELSE st = Begin

C17_Witness ==
    /\ last.op = "Enter"
    /\ ~last.composing
    /\ last.pre.values = Arr(<<>>)
    /\ trace = <<>>
    /\ ~threw
    /\ Core(State) = last.pre

(* C18: hovering rendered element k selects k and changes nothing else:   *)
(* candidates, panel, host stack, positioning instance and input text     *)
(* stay, selectSuggestion is not invoked, nothing scrolls, and a          *)
(* following ArrowDown selects (k+1) mod len.                             *)
C18_HoverSelectsOnly ==
    last.op = "mousemove"
    => LET len == Len(Rendered)
       IN /\ ~threw
          /\ selectedItem = Num(last.k)
          /\ OnlySelected(Rendered, Num(last.k))
          /\ len = Len(last.pre.suggestions.els)
          /\ \A i \in 1..len :
                /\ Rendered[i].id = last.pre.suggestions.els[i].id
                /\ Rendered[i].text = last.pre.suggestions.els[i].text
          /\ [Core(State) EXCEPT !.suggestions = last.pre.suggestions,
                                 !.selectedItem = last.pre.selectedItem]
             = last.pre
          /\ SelectCalls(trace) = <<>>
          /\ ~Called("scrollIntoView")
          /\ ScopeActive
          /\ onArrowDown(Begin, FALSE).selectedItem
             = Num((last.k + 1) % len)

C18_Witness ==
    /\ last.op = "mousemove"
    /\ last.k = 2
    /\ Len(Rendered) = 3
    /\ last.pre.selectedItem = Num(0)
    /\ selectedItem = Num(2)

====
